---- MODULE Spec2Model ----
(***************************************************************************)
(* State-machine model of src/src/state/swap.tsx: the useSwap quote        *)
(* session (estimation, refresh timer, submission) and the transaction     *)
(* outcome effect.                                                          *)
(*                                                                          *)
(* React conventions used by the model:                                     *)
(*  - a state or prop change commits a render; the effects whose            *)
(*    dependencies changed run right after the commit and before any other  *)
(*    event.  `pending` holds the effects scheduled by the last commit and  *)
(*    RunEffects is the only step enabled while it is non-empty;            *)
(*  - a closure (getEstimate, the promise handlers, the interval callback)  *)
(*    sees the props of the render that created it: a request in flight     *)
(*    carries the tokenIn, tokenOut, tokenInAmount and loadingTrigger it    *)
(*    was started with;                                                     *)
(*  - the then/catch/finally handlers of one promise run back to back and   *)
(*    are one step.                                                         *)
(* Optional values are sequences: <<>> is undefined, <<v>> is v.            *)
(***************************************************************************)
EXTENDS Integers, Sequences, FiniteSets, TLC

(* ------------------------------ bounds --------------------------------- *)
MaxInFlight == 2
MaxCount == 1
MaxSubmits == 1
MaxActions == 3
MaxRenders == 3
MaxStableCalls == 2

(* ------------------------------ values --------------------------------- *)
None == << >>
Some(v) == << v >>

Undefined == "undefined"
Null == "null"

Tokens == {"a", "b"}
TokenChoices == Tokens \cup {Undefined}

Amounts == { << >>, <<"0", ".">>, <<"2", "0">> }
StableAmounts == Amounts \cup { <<"5">> }

\* slippage tolerance in tenths of a percent
Slippages == {5, 10}

TxHashes == {"h1", "h2"}
ErrorTypes == {"userRejected"}
Methods == {"ft_transfer_call", "swap", "near_withdraw", "storage_deposit"}

PARALLEL == "parallel swap"
SMART == "smart routing"
STABLE == "stable swap"

ThrownEmpty == ""
TypeError == "TypeError"
EstimateRejected == "EstimateRejected"
SubmitRejected == "SubmitRejected"

VARIABLES
    tokenIn, tokenOut, tokenInAmount, slippageTolerance,
    loadingTrigger, loadingPause,
    pool, canSwap, tokenOutAmount, swapError, swapsToDo, avgFee, count,
    phase, pending, cause,
    inflight, latest,
    timers, timerId,
    submits,
    ev,
    txHash, errorType, txDep, txChecks, toasts, txStatus, renders, txEv,
    stable, stablePending, stableCalls, stableEv

props == << tokenIn, tokenOut, tokenInAmount, slippageTolerance >>
flags == << loadingTrigger, loadingPause >>
hookState == << pool, canSwap, tokenOutAmount, swapError, swapsToDo, avgFee >>
sessionVars == << props, flags, hookState, count, phase, pending, cause,
                  inflight, latest, timers, timerId, submits, ev >>
txVars == << txHash, errorType, txDep, txChecks, toasts, txStatus, renders,
            txEv >>
stableVars == << stable, stablePending, stableCalls, stableEv >>
vars == << sessionVars, txVars, stableVars >>

(* ---------------------------- ONLY_ZEROS ------------------------------- *)
RECURSIVE SkipZeros(_, _)
SkipZeros(s, i) ==
    IF i <= Len(s) /\ s[i] = "0" THEN SkipZeros(s, i + 1) ELSE i

\* /^0*\.?0*$/ applied to a string given as its sequence of characters.
ONLY_ZEROS(s) ==
    LET i == SkipZeros(s, 1)
        j == IF i <= Len(s) /\ s[i] = "." THEN i + 1 ELSE i
        k == SkipZeros(s, j)
    IN  k = Len(s) + 1

\* !tokenInAmount || ONLY_ZEROS.test(tokenInAmount)
IsBlankAmount(amount) == amount = << >> \/ ONLY_ZEROS(amount)

\* tokenIn && tokenOut && tokenIn.id !== tokenOut.id
DistinctTokens(tin, tout) ==
    tin # Undefined /\ tout # Undefined /\ tin # tout

RemoveAt(s, i) == SubSeq(s, 1, i - 1) \o SubSeq(s, i + 1, Len(s))

(* ------------------- Route Search Service (external) ------------------- *)
Leg(status, poolId, fee, inTok, outTok, amountIn, estimate) ==
    [status |-> status, pool |-> [id |-> poolId, fee |-> fee],
     inputToken |-> inTok, outputToken |-> outTok,
     totalInputAmount |-> amountIn, estimate |-> estimate]

\* The non-empty route sets estimateSwap may resolve with for a request:
\* one direct leg, or a two-leg smart route through an intermediate token.
\* The legs carry the parameters they were computed for.
Results(r) ==
    { << Leg(PARALLEL, 1, 30, r.tokenIn, r.tokenOut, r.tokenInAmount, <<"7">>) >>,
      << Leg(SMART, 2, 20, r.tokenIn, "mid", r.tokenInAmount, <<"9">>),
         Leg(SMART, 3, 5, "mid", r.tokenOut, r.tokenInAmount, <<"8">>) >> }

\* getExpectedOutputFromActions(estimates, tokenOut.id).toString()
getExpectedOutputFromActions(estimates, tokenOutId) ==
    estimates[Len(estimates)].estimate

\* getAverageFeeForRoutes(allRoutes, allNodeRoutes, totalInputAmount)
getAverageFeeForRoutes(estimate) == estimate.pool.fee

(* ----------------------------- minAmountOut ---------------------------- *)
\* Amounts are decimal strings; their value is counted in units of
\* 10^-Precision, the digits past Precision being dropped.
Precision == 3

Pow10(n) == IF n = 0 THEN 1 ELSE IF n = 1 THEN 10 ELSE IF n = 2 THEN 100 ELSE 1000

DigitValue(c) ==
    CASE c = "0" -> 0 [] c = "1" -> 1 [] c = "2" -> 2 [] c = "3" -> 3
      [] c = "4" -> 4 [] c = "5" -> 5 [] c = "6" -> 6 [] c = "7" -> 7
      [] c = "8" -> 8 [] c = "9" -> 9

RECURSIVE AmountUnitsFrom(_, _, _, _)
\* acc: the value read so far; frac: the number of decimals read, -1 before
\* the point.
AmountUnitsFrom(s, i, acc, frac) ==
    IF i > Len(s)
    THEN acc * Pow10(Precision - (IF frac < 0 THEN 0 ELSE frac))
    ELSE IF s[i] = "." THEN AmountUnitsFrom(s, i + 1, acc, 0)
    ELSE IF frac >= Precision THEN AmountUnitsFrom(s, i + 1, acc, frac)
    ELSE AmountUnitsFrom(s, i + 1, acc * 10 + DigitValue(s[i]),
                         IF frac < 0 THEN frac ELSE frac + 1)

AmountUnits(s) == AmountUnitsFrom(s, 1, 0, -1)

\* percentLess(percent, num): num less percent of num; percent is counted in
\* tenths of a percent (utils/numbers).
percentLess(percent, units) == units - ((percent * units) \div 1000)

\* Mutant: the amount is tested as a number, so '0' counts as no amount.
MinAmountOutZeroIsNull(slippage, out) ==
    IF out = << >> \/ AmountUnits(out) = 0 THEN None
    ELSE Some(percentLess(slippage, AmountUnits(out)))

\* tokenOutAmount ? percentLess(slippageTolerance, tokenOutAmount) : null,
\* None standing for null
MinAmountOutOf(slippage, out) ==
    IF out = << >> THEN None
    ELSE Some(percentLess(slippage, AmountUnits(out)))

(* ----------------------- useSwap: promise handlers ---------------------- *)
RECURSIVE SumFees(_)
\* estimates.reduce((pre, cur) => pre + cur.pool.fee, 0)
SumFees(estimates) ==
    IF estimates = << >> THEN 0
    ELSE Head(estimates).pool.fee + SumFees(Tail(estimates))

\* setAverageFee: the value passed to setAvgFee (estimates[0] must exist)
setAverageFee(estimates) ==
    LET estimate == estimates[1]
    IN  IF estimate.status = SMART \/ estimate.status = STABLE
        THEN SumFees(estimates)
        ELSE getAverageFeeForRoutes(estimate)

\* The hook's own state as one record, threaded through the handlers.
Local ==
    [pool |-> pool, canSwap |-> canSwap, tokenOutAmount |-> tokenOutAmount,
     swapError |-> swapError, swapsToDo |-> swapsToDo, avgFee |-> avgFee]

\* Mutant: the output is pushed whatever loadingTrigger the closure holds.
ShowsOutputAlways(r) == TRUE

\* if (!loadingTrigger): the then-handler pushes the output and the legs
ShowsOutput(r) == ~r.loadingTrigger

\* Mutant: setCanSwap(true) and setAverageFee moved inside if (!loadingTrigger).
ThenHandlerAllUnderShowsOutput(r, estimates, s) ==
    IF estimates = None
    THEN [s |-> s, threw |-> TRUE, err |-> ThrownEmpty]
    ELSE
      LET es == estimates[1]
          shown == ~IsBlankAmount(r.tokenInAmount) /\ ~r.loadingTrigger
      IN  IF es = << >>
          THEN [s |-> s, threw |-> TRUE, err |-> TypeError]
          ELSE [s |-> IF shown
                      THEN [s EXCEPT
                              !.canSwap = Some(TRUE),
                              !.avgFee = setAverageFee(es),
                              !.tokenOutAmount =
                                  getExpectedOutputFromActions(es, r.tokenOut),
                              !.swapsToDo = Some(es),
                              !.pool = Some(es[1].pool)]
                      ELSE [s EXCEPT !.pool = Some(es[1].pool)],
                threw |-> FALSE, err |-> Null]

\* .then((estimates) => {...}) of a request r; estimates is None for a
\* resolution with undefined/null.  Gives the state after the handler and
\* whether it threw.
ThenHandler(r, estimates, s) ==
    IF estimates = None
    THEN [s |-> s, threw |-> TRUE, err |-> ThrownEmpty]
    ELSE
      LET es == estimates[1]
          nonZero == ~IsBlankAmount(r.tokenInAmount)
          s1 == IF nonZero THEN [s EXCEPT !.canSwap = Some(TRUE)] ELSE s
      IN  IF es = << >>
          THEN \* estimates[0] is undefined: setAverageFee or estimates[0].pool throws
               [s |-> s1, threw |-> TRUE, err |-> TypeError]
          ELSE
            LET s2 == IF nonZero
                      THEN [s1 EXCEPT !.avgFee = setAverageFee(es)]
                      ELSE s1
                s3 == IF nonZero /\ ShowsOutput(r)
                      THEN [s2 EXCEPT
                              !.tokenOutAmount =
                                  getExpectedOutputFromActions(es, r.tokenOut),
                              !.swapsToDo = Some(es)]
                      ELSE s2
            IN  [s |-> [s3 EXCEPT !.pool = Some(es[1].pool)],
                 threw |-> FALSE, err |-> Null]

\* Mutant: the catch handler forgets to clear the visible output.
CatchHandlerKeepsOutput(err, s) ==
    [s EXCEPT !.canSwap = Some(FALSE), !.swapError = err]

\* .catch((err) => {...})
CatchHandler(err, s) ==
    [s EXCEPT !.canSwap = Some(FALSE), !.tokenOutAmount = << >>,
              !.swapError = err]

\* Mutant: no finally handler, loadingTrigger keeps its value.
FinallyHandlerSkipped(lt) == lt

\* .finally(() => setLoadingTrigger(false)): the new value of loadingTrigger
FinallyHandler(lt) == FALSE

\* The whole chain .then(..).catch(..).finally(..) for a settled estimateSwap
\* call.  The catch handler takes every rejection and throw of the then
\* handler and does not throw itself: the chain never ends rejected.
HandlerChain(r, rejected, estimates, s) ==
    LET t == IF rejected
             THEN [s |-> s, threw |-> TRUE, err |-> EstimateRejected]
             ELSE ThenHandler(r, estimates, s)
    IN  [s |-> IF t.threw THEN CatchHandler(t.err, t.s) ELSE t.s,
         threw |-> t.threw, err |-> t.err, unhandled |-> FALSE]

(* --------------------------- useSwap: effects --------------------------- *)
\* The last step taken (history): its kind and, for a settled estimation,
\* the loadingTrigger its closure captured, whether an edit started it, how
\* it settled and with which estimates; for makeSwap, the arguments of swap;
\* for unmount, the number of timers that were live.
NoEvent(kind) ==
    [kind |-> kind, loadingTrigger |-> FALSE, byEdit |-> FALSE,
     outcome |-> "none", estimates |-> None, unhandled |-> FALSE,
     args |-> None]

\* The closure of the getEstimate call made by the current render, with (as
\* history) the change that made the effect run.
Request ==
    [tokenIn |-> tokenIn, tokenOut |-> tokenOut,
     tokenInAmount |-> tokenInAmount, loadingTrigger |-> loadingTrigger,
     cause |-> IF cause \in {"edit", "timer"} THEN cause ELSE "other"]

\* The branch getEstimate takes for the props of the current render.
GetEstimateBranch ==
    IF DistinctTokens(tokenIn, tokenOut)
    THEN IF IsBlankAmount(tokenInAmount) THEN "zeroAmount" ELSE "estimateSwap"
    ELSE IF /\ tokenIn # Undefined /\ tokenOut # Undefined
            /\ tokenInAmount = << >> /\ ONLY_ZEROS(tokenInAmount)
            /\ tokenIn # tokenOut
         THEN "elseZero"
         ELSE "skipped"

\* History: no estimation was started by the last run of getEstimate.
NoLatest ==
    [outcome |-> "none", loadingTrigger |-> FALSE, byEdit |-> FALSE,
     estimates |-> None, prev |-> None]

\* getEstimate(): the synchronous part, up to the call of estimateSwap.
\* `latest` (history) is the estimation started by the last run of
\* getEstimate and how it settled; its field prev holds the estimates the run
\* before it resolved with, when that run had settled and nothing else was in
\* flight as this one started.
getEstimate ==
    /\ canSwap' = Some(FALSE)
    /\ swapError' = IF DistinctTokens(tokenIn, tokenOut) THEN Null ELSE swapError
    /\ tokenOutAmount' =
          IF GetEstimateBranch \in {"zeroAmount", "elseZero"}
          THEN <<"0">> ELSE tokenOutAmount
    /\ IF GetEstimateBranch = "estimateSwap"
       THEN /\ inflight' = Append(inflight, Request)
            /\ latest' = [outcome |-> "pending",
                           loadingTrigger |-> loadingTrigger,
                           byEdit |-> (cause = "edit"), estimates |-> None,
                           prev |-> IF /\ latest.outcome = "estimates"
                                       /\ inflight = << >>
                                    THEN latest.estimates ELSE None]
       ELSE /\ latest' = NoLatest
            /\ UNCHANGED inflight

\* Mutant: the interval is never cleared.
ClearIntervalNoop(ts, id) == ts

\* clearInterval(id)
ClearInterval(ts, id) ==
    IF id = None THEN ts ELSE { t \in ts : t.id # id[1] }

\* if (!loadingTrigger && !loadingPause)
CreatesInterval(lt, lp) == ~lt /\ ~lp

FreshId(ts) ==
    CHOOSE n \in 1..(Cardinality(ts) + 1) : \A t \in ts : t.id # n

\* The timer effect: the cleanup of the previous run, then the body.
TimerEffect ==
    LET cleared == ClearInterval(timers, timerId)
    IN  IF CreatesInterval(loadingTrigger, loadingPause)
        THEN LET id == FreshId(cleared)
             IN  /\ timers' = cleared \cup {[id |-> id, count |-> count]}
                 /\ timerId' = Some(id)
        ELSE /\ timers' = cleared
             /\ timerId' = None

\* The effects scheduled by the last commit run (on the first run: mount).
RunEffects ==
    /\ pending # {}
    /\ phase \in {"rendered", "mounted"}
    /\ phase' = "mounted"
    /\ IF "estimate" \in pending
       THEN getEstimate
       ELSE UNCHANGED << canSwap, swapError, tokenOutAmount, inflight, latest >>
    /\ IF "timer" \in pending
       THEN TimerEffect
       ELSE UNCHANGED << timers, timerId >>
    /\ pending' = {}
    /\ cause' = "none"
    /\ ev' = [NoEvent("effects") EXCEPT
                !.outcome = IF "estimate" \in pending
                            THEN GetEstimateBranch ELSE "notRun"]
    /\ UNCHANGED << props, flags, pool, swapsToDo, avgFee, count, submits >>
    /\ UNCHANGED << txVars, stableVars >>

Idle == phase = "mounted" /\ pending = {}

(* ----------------------- parent: parameter changes ---------------------- *)
SetTokenIn(t) ==
    /\ Idle /\ Len(inflight) < MaxInFlight
    /\ t # tokenIn
    /\ tokenIn' = t
    /\ pending' = {"estimate"} /\ cause' = "edit"
    /\ ev' = NoEvent("setTokenIn")
    /\ UNCHANGED << tokenOut, tokenInAmount, slippageTolerance, flags,
                    hookState, count, phase, inflight, latest, timers,
                    timerId, submits >>
    /\ UNCHANGED << txVars, stableVars >>

SetTokenOut(t) ==
    /\ Idle /\ Len(inflight) < MaxInFlight
    /\ t # tokenOut
    /\ tokenOut' = t
    /\ pending' = {"estimate"} /\ cause' = "edit"
    /\ ev' = NoEvent("setTokenOut")
    /\ UNCHANGED << tokenIn, tokenInAmount, slippageTolerance, flags,
                    hookState, count, phase, inflight, latest, timers,
                    timerId, submits >>
    /\ UNCHANGED << txVars, stableVars >>

SetTokenInAmount(a) ==
    /\ Idle /\ Len(inflight) < MaxInFlight
    /\ a # tokenInAmount
    /\ tokenInAmount' = a
    /\ pending' = {"estimate"} /\ cause' = "edit"
    /\ ev' = NoEvent("setTokenInAmount")
    /\ UNCHANGED << tokenIn, tokenOut, slippageTolerance, flags,
                    hookState, count, phase, inflight, latest, timers,
                    timerId, submits >>
    /\ UNCHANGED << txVars, stableVars >>

SetSlippageTolerance(x) ==
    /\ Idle
    /\ x # slippageTolerance
    /\ slippageTolerance' = x
    /\ ev' = NoEvent("setSlippageTolerance")
    /\ UNCHANGED << tokenIn, tokenOut, tokenInAmount, flags, hookState,
                    count, phase, pending, cause, inflight, latest, timers,
                    timerId, submits >>
    /\ UNCHANGED << txVars, stableVars >>

\* The parent pauses or resumes the refresh: setLoadingPause(lp).
SetLoadingPause(lp) ==
    /\ Idle /\ Len(inflight) < MaxInFlight
    /\ lp # loadingPause
    /\ loadingPause' = lp
    /\ pending' = {"estimate", "timer"} /\ cause' = "pause"
    /\ ev' = NoEvent("setLoadingPause")
    /\ UNCHANGED << props, loadingTrigger, hookState, count, phase, inflight,
                    latest, timers, timerId, submits >>
    /\ UNCHANGED << txVars, stableVars >>

(* ------------------------------- timer ---------------------------------- *)
\* The interval callback of a live timer: setLoadingTrigger(true);
\* setCount(count + 1).  A timer that outlives the session still calls the
\* parent's setter; setCount then does nothing and no effect runs.
TimerFire ==
    /\ pending = {} /\ phase # "rendered" /\ Len(inflight) < MaxInFlight
    /\ \E t \in timers :
          /\ t.count < MaxCount
          /\ count' = IF phase = "mounted" THEN t.count + 1 ELSE count
    /\ loadingTrigger' = TRUE
    /\ pending' = IF phase = "mounted"
                  THEN (IF loadingTrigger THEN {} ELSE {"estimate"}) \cup
                       (IF count' = count THEN {} ELSE {"timer"})
                  ELSE {}
    /\ cause' = "timer"
    /\ ev' = NoEvent("timer")
    /\ UNCHANGED << props, loadingPause, hookState, phase, inflight, latest,
                    timers, timerId, submits >>
    /\ UNCHANGED << txVars, stableVars >>

(* ------------------------ estimateSwap settles -------------------------- *)
SettleWith(i, outcome, rejected, estimates) ==
    LET r == inflight[i]
        h == HandlerChain(r, rejected, estimates, Local)
        lt == FinallyHandler(loadingTrigger)
    IN  /\ i \in 1..Len(inflight)
        /\ pending = {}
        /\ inflight' = RemoveAt(inflight, i)
        /\ latest' = IF i = Len(inflight) /\ latest.outcome = "pending"
                     THEN [latest EXCEPT !.outcome = outcome,
                                         !.estimates = estimates]
                     ELSE latest
        /\ IF phase = "mounted"
           THEN /\ pool' = h.s.pool
                /\ canSwap' = h.s.canSwap
                /\ tokenOutAmount' = h.s.tokenOutAmount
                /\ swapError' = h.s.swapError
                /\ swapsToDo' = h.s.swapsToDo
                /\ avgFee' = h.s.avgFee
           ELSE UNCHANGED hookState
        /\ loadingTrigger' = lt
        /\ pending' = IF phase = "mounted" /\ lt # loadingTrigger
                      THEN {"estimate", "timer"} ELSE {}
        /\ cause' = IF pending' = {} THEN "none" ELSE "settle"
        /\ ev' = [NoEvent("settle") EXCEPT
                    !.loadingTrigger = r.loadingTrigger,
                    !.byEdit = (r.cause = "edit"),
                    !.outcome = outcome, !.estimates = estimates,
                    !.unhandled = h.unhandled]
        /\ UNCHANGED << props, loadingPause, count, phase, timers, timerId,
                        submits >>
        /\ UNCHANGED << txVars, stableVars >>

SettleEstimates(i) ==
    /\ i \in 1..Len(inflight)
    /\ \E es \in Results(inflight[i]) :
          SettleWith(i, "estimates", FALSE, Some(es))

SettleNoEstimates(i) ==
    /\ i \in 1..Len(inflight)
    /\ SettleWith(i, "noEstimates", FALSE, None)

SettleEmptyArray(i) ==
    /\ i \in 1..Len(inflight)
    /\ SettleWith(i, "emptyArray", FALSE, Some(<< >>))

SettleRejected(i) ==
    /\ i \in 1..Len(inflight)
    /\ SettleWith(i, "rejected", TRUE, None)

(* ------------------------------ makeSwap -------------------------------- *)
makeSwap(useNearBalance) ==
    /\ Idle
    /\ submits < MaxSubmits
    /\ submits' = submits + 1
    /\ ev' = [NoEvent("makeSwap") EXCEPT !.args = Some(
          [slippageTolerance |-> slippageTolerance, swapsToDo |-> swapsToDo,
           tokenIn |-> tokenIn, amountIn |-> tokenInAmount,
           tokenOut |-> tokenOut, useNearBalance |-> useNearBalance])]
    /\ UNCHANGED << props, flags, hookState, count, phase, pending, cause,
                    inflight, latest, timers, timerId >>
    /\ UNCHANGED << txVars, stableVars >>

\* swap(...) resolves: no handler
SubmitResolved ==
    /\ submits > 0
    /\ pending = {}
    /\ submits' = submits - 1
    /\ ev' = NoEvent("submitResolved")
    /\ UNCHANGED << props, flags, hookState, count, phase, pending, cause,
                    inflight, latest, timers, timerId >>
    /\ UNCHANGED << txVars, stableVars >>

\* Mutant: the failure handler also withdraws the quote.
SubmitCatchDropsQuote(err, s) ==
    [s EXCEPT !.swapError = err, !.canSwap = Some(FALSE),
              !.tokenOutAmount = << >>]

\* .catch(setSwapError)
SubmitCatch(err, s) == [s EXCEPT !.swapError = err]

\* swap(...) rejects: the catch handler runs, the chain ends fulfilled.
SubmitRejects ==
    LET s == SubmitCatch(SubmitRejected, Local)
    IN  /\ submits > 0
        /\ pending = {}
        /\ submits' = submits - 1
        /\ IF phase = "mounted"
           THEN /\ pool' = s.pool
                /\ canSwap' = s.canSwap
                /\ tokenOutAmount' = s.tokenOutAmount
                /\ swapError' = s.swapError
                /\ swapsToDo' = s.swapsToDo
                /\ avgFee' = s.avgFee
           ELSE UNCHANGED hookState
        /\ ev' = NoEvent("submitRejected")
        /\ UNCHANGED << props, flags, count, phase, pending, cause, inflight,
                        latest, timers, timerId >>
        /\ UNCHANGED << txVars, stableVars >>

(* ------------------------------ teardown -------------------------------- *)
\* Mutant: the timer effect returns no cleanup.
CleanupTimerSkipped(ts, id) == ts

\* return () => { clearInterval(id) }
CleanupTimer(ts, id) == ClearInterval(ts, id)

\* Unmount: the cleanup of the last run of the timer effect runs.  The event
\* records (as history) how many timers were live before it.
Unmount ==
    /\ Idle
    /\ phase' = "unmounted"
    /\ timers' = CleanupTimer(timers, timerId)
    /\ timerId' = None
    /\ ev' = [NoEvent("unmount") EXCEPT !.args = Some(Cardinality(timers))]
    /\ UNCHANGED << props, flags, hookState, count, pending, cause, inflight,
                    latest, submits >>
    /\ UNCHANGED << txVars, stableVars >>

(* ---------------------- transaction outcome effect ---------------------- *)
\* transaction?.actions[i]?.['FunctionCall']?.method_name, i counted from 0;
\* a transaction is None (undefined) or Some(list of actions), an action is
\* its FunctionCall method name or None when it is no FunctionCall.
MethodName(transaction, i) ==
    IF transaction = None THEN Undefined
    ELSE LET actions == transaction[1]
         IN  IF i + 1 > Len(actions) THEN Undefined
             ELSE IF actions[i + 1] = None THEN Undefined
             ELSE actions[i + 1][1]

SwapMethods == {"ft_transfer_call", "swap", "near_withdraw"}

\* Mutant: both of the first two actions are tested against all three names.
isSwapFirstTwo(transaction) ==
    \E i \in {0, 1} : MethodName(transaction, i) \in SwapMethods

\* The first then-handler: the classification of the fetched transaction.
isSwap(transaction) ==
    \/ MethodName(transaction, 1) = "ft_transfer_call"
    \/ MethodName(transaction, 0) = "ft_transfer_call"
    \/ MethodName(transaction, 0) = "swap"
    \/ MethodName(transaction, 0) = "near_withdraw"

\* if (isSwap) { !errorType && swapToast(txHash) }
CallsSwapToast(swapFound, closure) == swapFound /\ closure.errorType = None

\* Mutant: no dependency array, the effect runs on every render.
TxDepsAlwaysChanged(dep, hash) == TRUE

\* The dependency array [txHash]: the effect runs on mount and when txHash
\* differs from its value at the last run.
TxDepsChanged(dep, hash) == dep # Some(hash)

ActionEntries == {None} \cup { Some(m) : m \in Methods }

ActionLists == UNION { [1..n -> ActionEntries] : n \in 0..MaxActions }

\* History of the navigation context: per hash, whether it was found in the
\* URL, the error code found with it, how its lookup ended and how many
\* lookups were started for it; txEv is the last step of the effect.
NoTxEvent(kind) ==
    [kind |-> kind, txHash |-> None, transaction |-> None, isSwap |-> FALSE]

\* A render of the component: the transaction effect runs if [txHash] changed.
Render ==
    /\ renders < MaxRenders
    /\ renders' = renders + 1
    /\ IF TxDepsChanged(txDep, txHash)
       THEN /\ txDep' = Some(txHash)
            /\ IF txHash # None
               THEN /\ txChecks' = Append(txChecks,
                          [txHash |-> txHash[1], errorType |-> errorType])
                    /\ txStatus' = [txStatus EXCEPT ![txHash[1]].started = @ + 1]
               ELSE UNCHANGED << txChecks, txStatus >>
       ELSE UNCHANGED << txDep, txChecks, txStatus >>
    /\ txEv' = NoTxEvent("render")
    /\ UNCHANGED << txHash, errorType, toasts >>
    /\ UNCHANGED << sessionVars, stableVars >>

\* The page is entered with a transaction hash (and possibly an error code)
\* in the URL; each hash arrives once.
Navigate(h, e) ==
    /\ ~txStatus[h].found
    /\ txHash' = Some(h)
    /\ errorType' = e
    /\ txStatus' = [txStatus EXCEPT ![h] =
          [found |-> TRUE, errorType |-> e, result |-> "none",
           started |-> 0]]
    /\ txEv' = NoTxEvent("navigate")
    /\ UNCHANGED << txDep, txChecks, toasts, renders >>
    /\ UNCHANGED << sessionVars, stableVars >>

\* Mutant: the URL keeps its query after the lookup.
HistoryReplaceSkipped(url) == url

\* history.replace(pathname): the URL (txHash, errorType) without its query
HistoryReplace(url) == [txHash |-> None, errorType |-> None]

\* Mutant: a catch handler that reports a failed lookup to the user.
TxChainToastsFailure(c, rejected, transaction) ==
    LET found == ~rejected /\ isSwap(transaction)
    IN  [isSwap |-> found, toast |-> rejected \/ CallsSwapToast(found, c),
         replace |-> TRUE, unhandled |-> FALSE]

\* checkTransaction(txHash).then(classify).then(report) for the closure c of
\* the render that started it: what the chain does when the lookup settles.
\* There is no catch: a rejection skips both handlers and stays unhandled.
TxChain(c, rejected, transaction) ==
    IF rejected
    THEN [isSwap |-> FALSE, toast |-> FALSE, replace |-> FALSE,
          unhandled |-> TRUE]
    ELSE LET found == isSwap(transaction)
         IN  [isSwap |-> found, toast |-> CallsSwapToast(found, c),
              replace |-> TRUE, unhandled |-> FALSE]

\* checkTransaction(txHash) settles and the chain runs.
CheckSettled(i, rejected, transaction, result) ==
    LET c == txChecks[i]
        h == TxChain(c, rejected, transaction)
        url == IF h.replace
               THEN HistoryReplace([txHash |-> txHash, errorType |-> errorType])
               ELSE [txHash |-> txHash, errorType |-> errorType]
    IN  /\ toasts' = IF h.toast
                     THEN [toasts EXCEPT ![c.txHash] = @ + 1]
                     ELSE toasts
        /\ txStatus' = [txStatus EXCEPT ![c.txHash].result =
               IF result = "resolved"
               THEN (IF h.isSwap THEN "swap" ELSE "notSwap")
               ELSE result]
        /\ txEv' = [kind |-> result, txHash |-> Some(c.txHash),
                    transaction |-> transaction, isSwap |-> h.isSwap]
        /\ txChecks' = RemoveAt(txChecks, i)
        /\ txHash' = url.txHash
        /\ errorType' = url.errorType
        /\ UNCHANGED << txDep, renders >>
        /\ UNCHANGED << sessionVars, stableVars >>

\* checkTransaction(txHash) resolves with a transaction.
CheckResolved(i, transaction) ==
    /\ i \in 1..Len(txChecks)
    /\ CheckSettled(i, FALSE, transaction, "resolved")

\* checkTransaction(txHash) rejects.
CheckRejected(i) ==
    /\ i \in 1..Len(txChecks)
    /\ CheckSettled(i, TRUE, None, "rejected")

(* ----------------------------- useStableSwap ---------------------------- *)
\* `stable` holds the props (tokenIn, tokenOut, tokenInAmount, loadingTrigger)
\* and the state of a useStableSwap session; stablePending the effects
\* scheduled by the last commit and the change that scheduled them;
\* stableCalls the closures of the estimateStableSwap calls in flight;
\* stableEv the last step (history).

\* estimateStableSwap resolves with {estimate, pool, dy} (Route Search Service)
StableResult(r) ==
    [estimate |-> <<"6">>, pool |-> [id |-> 9, fee |-> 5], dy |-> <<"6", "1">>]

NoStableEvent(kind) ==
    [kind |-> kind, cause |-> "none", calls |-> << >>]

\* The closure of a getEstimate call made by the current render.
StableRequest ==
    [tokenIn |-> stable.tokenIn, tokenOut |-> stable.tokenOut,
     tokenInAmount |-> stable.tokenInAmount,
     loadingTrigger |-> stable.loadingTrigger]

\* useStableSwap.getEstimate, synchronous part, applied to the state s:
\* the new state and the estimateStableSwap calls it made.
StableGetEstimate(s) ==
    LET s1 == [s EXCEPT !.canSwap = Some(FALSE)]
    IN  IF DistinctTokens(s.tokenIn, s.tokenOut)
        THEN [s |-> [s1 EXCEPT !.swapError = Null],
              calls |-> << StableRequest >>]
        ELSE IF /\ s.tokenIn # Undefined /\ s.tokenOut # Undefined
                /\ s.tokenInAmount = << >> /\ ONLY_ZEROS(s.tokenInAmount)
                /\ s.tokenIn # s.tokenOut
             THEN [s |-> [s1 EXCEPT !.tokenOutAmount = <<"0">>],
                   calls |-> << >>]
             ELSE [s |-> s1, calls |-> << >>]

\* if (loadingTrigger && !ONLY_ZEROS.test(tokenInAmountMemo)) return;
ParamEffectReturnsEarly(s) ==
    s.loadingTrigger /\ ~ONLY_ZEROS(s.tokenInAmountMemo)

\* The effect on [tokenIn, tokenOut, tokenInAmount]; tokenInAmountMemo read
\* by the test is the one of the current render, the new one shows next.
ParamEffect(s) ==
    LET g == IF ParamEffectReturnsEarly(s)
             THEN [s |-> s, calls |-> << >>]
             ELSE StableGetEstimate(s)
    IN  [s |-> [g.s EXCEPT !.tokenInAmountMemo = s.tokenInAmount],
         calls |-> g.calls]

\* The effect on [loadingTrigger]
TriggerEffect(s) == StableGetEstimate(s)

\* The effects scheduled by the last commit run, in the order of declaration.
StableRunEffects ==
    LET e1 == IF "params" \in stablePending.effects
              THEN ParamEffect(stable)
              ELSE [s |-> stable, calls |-> << >>]
        e2 == IF "trigger" \in stablePending.effects
              THEN TriggerEffect(e1.s)
              ELSE [s |-> e1.s, calls |-> << >>]
    IN  /\ stablePending.effects # {}
        /\ stable' = e2.s
        /\ stableCalls' = stableCalls \o e1.calls \o e2.calls
        /\ stablePending' = [effects |-> {}, cause |-> "none"]
        /\ stableEv' = [kind |-> "effects", cause |-> stablePending.cause,
                        calls |-> e1.calls \o e2.calls]
        /\ UNCHANGED << sessionVars, txVars >>

StableIdle ==
    stablePending.effects = {} /\ Len(stableCalls) < MaxStableCalls

StableSetTokenInAmount(a) ==
    /\ StableIdle
    /\ a # stable.tokenInAmount
    /\ stable' = [stable EXCEPT !.tokenInAmount = a]
    /\ stablePending' = [effects |-> {"params"}, cause |-> "amount"]
    /\ stableEv' = NoStableEvent("setTokenInAmount")
    /\ UNCHANGED << stableCalls, sessionVars, txVars >>

StableSetTokenIn(tok) ==
    /\ StableIdle
    /\ tok # stable.tokenIn
    /\ stable' = [stable EXCEPT !.tokenIn = tok]
    /\ stablePending' = [effects |-> {"params"}, cause |-> "token"]
    /\ stableEv' = NoStableEvent("setTokenIn")
    /\ UNCHANGED << stableCalls, sessionVars, txVars >>

\* The parent's refresh timer fires: setLoadingTrigger(true)
StableTimerFire ==
    /\ StableIdle
    /\ ~stable.loadingTrigger
    /\ stable' = [stable EXCEPT !.loadingTrigger = TRUE]
    /\ stablePending' = [effects |-> {"trigger"}, cause |-> "timer"]
    /\ stableEv' = NoStableEvent("timer")
    /\ UNCHANGED << stableCalls, sessionVars, txVars >>

\* The refresh is over: setLoadingTrigger(false), the setter handed to
\* estimateStableSwap
StableLoadingDone ==
    /\ StableIdle
    /\ stable.loadingTrigger
    /\ stable' = [stable EXCEPT !.loadingTrigger = FALSE]
    /\ stablePending' = [effects |-> {"trigger"}, cause |-> "done"]
    /\ stableEv' = NoStableEvent("loadingDone")
    /\ UNCHANGED << stableCalls, sessionVars, txVars >>

\* .then(({ estimate, pool, dy }) => {...}); result is None when estimate or
\* pool is missing
StableThenHandler(r, result, s) ==
    IF result = None
    THEN [s |-> s, threw |-> TRUE, err |-> ThrownEmpty]
    ELSE LET res == result[1]
             nonZero == ~IsBlankAmount(r.tokenInAmount)
             s1 == IF nonZero THEN [s EXCEPT !.canSwap = Some(TRUE)] ELSE s
             s2 == IF nonZero /\ ~r.loadingTrigger
                   THEN [s1 EXCEPT !.noFeeAmount = res.dy,
                                   !.tokenOutAmount = res.estimate]
                   ELSE s1
             s3 == IF nonZero THEN [s2 EXCEPT !.pool = Some(res.pool)] ELSE s2
         IN  [s |-> s3, threw |-> FALSE, err |-> Null]

\* .catch((err) => {...})
StableCatchHandler(err, s) ==
    [s EXCEPT !.canSwap = Some(FALSE), !.tokenOutAmount = << >>,
              !.noFeeAmount = << >>, !.swapError = err]

\* estimateStableSwap settles and the handlers run (there is no finally).
StableSettle(i, outcome, rejected, result) ==
    LET r == stableCalls[i]
        th == IF rejected
              THEN [s |-> stable, threw |-> TRUE, err |-> EstimateRejected]
              ELSE StableThenHandler(r, result, stable)
    IN  /\ i \in 1..Len(stableCalls)
        /\ stablePending.effects = {}
        /\ stable' = IF th.threw THEN StableCatchHandler(th.err, th.s) ELSE th.s
        /\ stableCalls' = RemoveAt(stableCalls, i)
        /\ stableEv' = [NoStableEvent("settle") EXCEPT !.cause = outcome]
        /\ UNCHANGED << stablePending, sessionVars, txVars >>

StableSettleResolved(i) ==
    /\ i \in 1..Len(stableCalls)
    /\ StableSettle(i, "resolved", FALSE, Some(StableResult(stableCalls[i])))

StableSettleMissing(i) ==
    /\ i \in 1..Len(stableCalls)
    /\ StableSettle(i, "missing", FALSE, None)

StableSettleRejected(i) ==
    /\ i \in 1..Len(stableCalls)
    /\ StableSettle(i, "rejected", TRUE, None)

(* --------------------------- specification ------------------------------ *)
StableInit(tins, touts, amounts) ==
    /\ \E tin \in tins, tout \in touts, a \in amounts :
          stable = [tokenIn |-> tin, tokenOut |-> tout, tokenInAmount |-> a,
                    loadingTrigger |-> FALSE, pool |-> None, canSwap |-> None,
                    tokenOutAmount |-> << >>, swapError |-> Undefined,
                    noFeeAmount |-> << >>, tokenInAmountMemo |-> << >>]
    /\ stablePending = [effects |-> {"params", "trigger"}, cause |-> "mount"]
    /\ stableCalls = << >>
    /\ stableEv = NoStableEvent("init")

SessionInit(tins, touts, amounts, slippages) ==
    /\ tokenIn \in tins
    /\ tokenOut \in touts
    /\ tokenInAmount \in amounts
    /\ slippageTolerance \in slippages
    /\ loadingTrigger = FALSE
    /\ loadingPause = FALSE
    /\ pool = None
    /\ canSwap = None
    /\ tokenOutAmount = << >>
    /\ swapError = Undefined
    /\ swapsToDo = None
    /\ avgFee = 0
    /\ count = 0
    /\ phase = "rendered"
    /\ pending = {"estimate", "timer"}
    /\ cause = "mount"
    /\ inflight = << >>
    /\ latest = NoLatest
    /\ timers = {}
    /\ timerId = None
    /\ submits = 0
    /\ ev = NoEvent("init")

TxInit ==
    /\ txHash = None
    /\ errorType = None
    /\ txDep = None
    /\ txChecks = << >>
    /\ toasts = [h \in TxHashes |-> 0]
    /\ txStatus = [h \in TxHashes |->
          [found |-> FALSE, errorType |-> None, result |-> "none",
           started |-> 0]]
    /\ renders = 0
    /\ txEv = NoTxEvent("init")

\* The quote session: estimation, refresh timer, teardown.
Init ==
    /\ SessionInit(TokenChoices, TokenChoices, Amounts, {5})
    /\ TxInit
    /\ StableInit({"a"}, {"b"}, {<< >>})

Next ==
    \/ RunEffects
    \/ \E t \in Tokens : SetTokenIn(t)
    \/ \E t \in Tokens : SetTokenOut(t)
    \/ \E a \in Amounts : SetTokenInAmount(a)
    \/ \E lp \in BOOLEAN : SetLoadingPause(lp)
    \/ TimerFire
    \/ \E i \in 1..MaxInFlight : SettleEstimates(i)
    \/ \E i \in 1..MaxInFlight : SettleNoEstimates(i)
    \/ \E i \in 1..MaxInFlight : SettleEmptyArray(i)
    \/ \E i \in 1..MaxInFlight : SettleRejected(i)
    \/ Unmount

Spec == Init /\ [][Next]_vars

\* The transaction outcome effect of one mounted session, next to the
\* session's first estimation.
InitTx ==
    /\ SessionInit({"a"}, {"b"}, {<<"2", "0">>}, {5})
    /\ TxInit
    /\ StableInit({"a"}, {"b"}, {<< >>})

NextTx ==
    \/ RunEffects
    \/ \E i \in 1..MaxInFlight : SettleEstimates(i)
    \/ Render
    \/ \E h \in TxHashes : \E e \in {None} \cup { Some(x) : x \in ErrorTypes } :
          Navigate(h, e)
    \/ \E i \in 1..Cardinality(TxHashes) :
          \E actions \in ActionLists : CheckResolved(i, Some(actions))
    \/ \E i \in 1..Cardinality(TxHashes) : CheckResolved(i, None)
    \/ \E i \in 1..Cardinality(TxHashes) : CheckRejected(i)

SpecTx == InitTx /\ [][NextTx]_vars

\* The session with submission: parameter edits (slippage included),
\* estimation and makeSwap, without the refresh timer.
InitSubmit ==
    /\ SessionInit(Tokens, Tokens, Amounts, Slippages)
    /\ TxInit
    /\ StableInit({"a"}, {"b"}, {<< >>})

NextSubmit ==
    \/ RunEffects
    \/ \E t \in Tokens : SetTokenIn(t)
    \/ \E t \in Tokens : SetTokenOut(t)
    \/ \E a \in Amounts : SetTokenInAmount(a)
    \/ \E x \in Slippages : SetSlippageTolerance(x)
    \/ \E i \in 1..MaxInFlight : SettleEstimates(i)
    \/ \E i \in 1..MaxInFlight : SettleNoEstimates(i)
    \/ \E i \in 1..MaxInFlight : SettleEmptyArray(i)
    \/ \E i \in 1..MaxInFlight : SettleRejected(i)
    \/ \E b \in BOOLEAN : makeSwap(b)
    \/ SubmitResolved
    \/ SubmitRejects

SpecSubmit == InitSubmit /\ [][NextSubmit]_vars

\* The refresh cycle left to itself: no user edit, no pause, no teardown.
\* React runs the scheduled effects, and every estimateSwap call settles.
EstimateSettles ==
    \E i \in 1..MaxInFlight :
        \/ SettleEstimates(i) \/ SettleNoEstimates(i)
        \/ SettleEmptyArray(i) \/ SettleRejected(i)

NextLive ==
    \/ RunEffects
    \/ TimerFire
    \/ \E i \in 1..MaxInFlight : SettleEstimates(i)
    \/ \E i \in 1..MaxInFlight : SettleNoEstimates(i)
    \/ \E i \in 1..MaxInFlight : SettleEmptyArray(i)
    \/ \E i \in 1..MaxInFlight : SettleRejected(i)

SpecLive ==
    /\ Init /\ [][NextLive]_vars
    /\ WF_vars(RunEffects)
    /\ WF_vars(EstimateSettles)

\* A useStableSwap session: parameter edits, the parent's refresh flag,
\* estimation.
InitStable ==
    /\ SessionInit({"a"}, {"b"}, {<<"2", "0">>}, {5})
    /\ TxInit
    /\ StableInit(TokenChoices, Tokens, StableAmounts)

NextStable ==
    \/ StableRunEffects
    \/ \E a \in StableAmounts : StableSetTokenInAmount(a)
    \/ \E tok \in Tokens : StableSetTokenIn(tok)
    \/ StableTimerFire
    \/ StableLoadingDone
    \/ \E i \in 1..MaxStableCalls : StableSettleResolved(i)
    \/ \E i \in 1..MaxStableCalls : StableSettleMissing(i)
    \/ \E i \in 1..MaxStableCalls : StableSettleRejected(i)

SpecStable == InitStable /\ [][NextStable]_vars

(* ------------------------------- claims --------------------------------- *)
\* const minAmountOut = tokenOutAmount ? percentLess(...) : null
minAmountOutIsNull == tokenOutAmount = << >>

\* minAmountOut of the current render
minAmountOut == MinAmountOutOf(slippageTolerance, tokenOutAmount)

\* The value the catch handler receives for each way an estimation fails.
CaughtValue(outcome) ==
    CASE outcome = "noEstimates" -> ThrownEmpty
      [] outcome = "emptyArray" -> TypeError
      [] outcome = "rejected" -> EstimateRejected
      [] OTHER -> Null

Settled == ev.kind = "settle" /\ phase = "mounted"

\* C1: when the most recently started estimation was started by a parameter
\* change (with loadingTrigger false) and has resolved with estimates, no
\* estimation is in flight and the parameters are still the ones it was
\* started for, the visible state is the one that estimation produced,
\* whatever order the estimations settled in.
C1_LatestEstimateWins ==
    ( /\ Idle /\ inflight = << >>
      /\ GetEstimateBranch = "estimateSwap"
      /\ latest.outcome = "estimates" /\ latest.byEdit
      /\ ~latest.loadingTrigger )
    => /\ swapsToDo = latest.estimates
       /\ tokenOutAmount =
             getExpectedOutputFromActions(latest.estimates[1], tokenOut)
       /\ canSwap = Some(TRUE)
       /\ swapError = Null

\* C2: once the effects of a render have run, canSwap = true implies distinct
\* tokens, a tokenInAmount that is neither empty nor all zeros, and no
\* recorded swapError.
C2_CanSwapOnlyWhenTradeable ==
    (Idle /\ canSwap = Some(TRUE))
    => /\ DistinctTokens(tokenIn, tokenOut)
       /\ ~IsBlankAmount(tokenInAmount)
       /\ swapError \in {Null, Undefined}

\* C3: at most one interval timer is live; once the effects of a render have
\* run no timer is live while loadingTrigger or loadingPause is true, and the
\* live timer is the one the last run of the timer effect created.
C3_OneTimer ==
    /\ Cardinality(timers) <= 1
    /\ (pending = {} /\ (loadingTrigger \/ loadingPause)) => timers = {}
    /\ \A t \in timers : timerId = Some(t.id)
    /\ phase = "unmounted" => timers = {}

\* C3 witness: a timer is live again after a full refresh cycle (it fired,
\* was cleared, and was recreated when loadingTrigger dropped).
C3_Witness == Idle /\ count > 0 /\ timers # {}

\* C4 as claimed: the completion of an estimation started while
\* loadingTrigger was true never changes tokenOutAmount or swapsToDo, whether
\* it succeeds or fails.
C4_Original ==
    [][ (ev'.kind = "settle" /\ ev'.loadingTrigger /\ phase = "mounted")
        => (tokenOutAmount' = tokenOutAmount /\ swapsToDo' = swapsToDo) ]_vars

\* C4 amended: the completion of an estimation started while loadingTrigger
\* was true never changes swapsToDo; when it resolves with estimates it leaves
\* tokenOutAmount and swapError unchanged too; when it fails it clears
\* tokenOutAmount to the empty string.
C4_Amended ==
    [][ (ev'.kind = "settle" /\ ev'.loadingTrigger /\ phase = "mounted")
        => /\ swapsToDo' = swapsToDo
           /\ ev'.outcome = "estimates" =>
                 (tokenOutAmount' = tokenOutAmount /\ swapError' = swapError)
           /\ ev'.outcome # "estimates" => tokenOutAmount' = << >> ]_vars

\* C4 witness: a background refresh resolved with estimates whose output
\* differs from the output on display, which stayed.
C4_Witness ==
    /\ Settled /\ ev.loadingTrigger /\ ev.outcome = "estimates"
    /\ tokenOutAmount \notin {<< >>, <<"0">>}
    /\ tokenOutAmount # getExpectedOutputFromActions(ev.estimates[1], tokenOut)
    /\ swapsToDo # ev.estimates

\* A timer-triggered refresh (started when the timer set loadingTrigger) is
\* in flight.
RefreshInFlight ==
    \E j \in 1..Len(inflight) :
        inflight[j].loadingTrigger /\ inflight[j].cause = "timer"

\* C5: an estimation started by a user edit that resolves with estimates
\* writes its output to tokenOutAmount and its legs to swapsToDo, when the
\* edit was made with loadingTrigger false and also when it was made with
\* loadingTrigger true while a background refresh is (still) in flight.
C5_EditEstimateShown ==
    ( /\ Settled /\ ev.byEdit /\ ev.outcome = "estimates"
      /\ ev.loadingTrigger => RefreshInFlight )
    => /\ swapsToDo = ev.estimates
       /\ tokenOutAmount =
             getExpectedOutputFromActions(ev.estimates[1],
                                          ev.estimates[1][1].outputToken)

\* C6: after the handlers of a settled estimateSwap call have run,
\* loadingTrigger is false, however the call settled.
C6_LoadingTriggerCleared == ev.kind = "settle" => loadingTrigger = FALSE

\* C6 witness: a call rejected while loadingTrigger was true (the drop of
\* loadingTrigger scheduled the effects again).
C6_Witness ==
    ev.kind = "settle" /\ ev.outcome = "rejected" /\ pending # {}

\* C7: after the handlers of an estimation that rejected, resolved without
\* estimates or resolved with an empty array, canSwap is false,
\* tokenOutAmount is empty (minAmountOut is null), swapError is the caught
\* value, and the promise chain does not end rejected.
C7_FailureRecorded ==
    (Settled /\ ev.outcome \in {"noEstimates", "emptyArray", "rejected"})
    => /\ canSwap = Some(FALSE)
       /\ tokenOutAmount = << >>
       /\ minAmountOutIsNull
       /\ swapError = CaughtValue(ev.outcome)
       /\ ~ev.unhandled

\* C7 witness: an estimation resolved with an empty array after an earlier
\* one had put a quote on display.
C7_Witness ==
    Settled /\ ev.outcome = "emptyArray" /\ swapsToDo # None

\* C8: getEstimate with distinct tokens and a blank or all-zero amount does
\* not call estimateSwap, and while the amount stays blank or zero (effects
\* run) tokenOutAmount is '0' and canSwap is not true.
C8_ZeroAmountQuote ==
    /\ ( /\ ev.kind = "effects" /\ ev.outcome # "notRun"
         /\ DistinctTokens(tokenIn, tokenOut)
         /\ IsBlankAmount(tokenInAmount) )
       => (ev.outcome = "zeroAmount" /\ tokenOutAmount = <<"0">>)
    /\ (Idle /\ DistinctTokens(tokenIn, tokenOut)
             /\ IsBlankAmount(tokenInAmount))
       => (tokenOutAmount = <<"0">> /\ canSwap # Some(TRUE))

\* C9: swapToast has been called once for a hash whose transaction was
\* fetched and classified as a swap with no error code in the URL, and never
\* for any other hash, across re-renders.
C9_ToastOncePerHash ==
    \A h \in TxHashes :
        toasts[h] = IF /\ txStatus[h].result = "swap"
                       /\ txStatus[h].errorType = None
                    THEN 1 ELSE 0

\* C9 witness: the toast for a hash was emitted and the component has
\* rendered again since.
C9_Witness ==
    /\ txEv.kind = "render" /\ renders = MaxRenders
    /\ \E h \in TxHashes : toasts[h] = 1

\* C10 as claimed: a fetched transaction is classified as a swap exactly when
\* one of its first two actions is a FunctionCall of ft_transfer_call, swap or
\* near_withdraw.
C10_Original ==
    txEv.kind = "resolved"
    => (txEv.isSwap <=>
          \E i \in {0, 1} : MethodName(txEv.transaction, i) \in SwapMethods)

\* C10 amended: a fetched transaction is classified as a swap exactly when
\* its first action is a FunctionCall of ft_transfer_call, swap or
\* near_withdraw, or its second action is a FunctionCall of ft_transfer_call.
C10_Amended ==
    txEv.kind = "resolved"
    => (txEv.isSwap <=>
          /\ txEv.transaction # None
          /\ LET actions == txEv.transaction[1]
             IN  \/ /\ Len(actions) >= 1
                    /\ actions[1] \in { Some(m) : m \in SwapMethods }
                 \/ /\ Len(actions) >= 2
                    /\ actions[2] = Some("ft_transfer_call"))

\* C10 witness: a transaction whose second action is a swap call and whose
\* first is none of the three was fetched and not classified as a swap.
C10_Witness ==
    /\ txEv.kind = "resolved" /\ txEv.transaction # None
    /\ Len(txEv.transaction[1]) = MaxActions
    /\ txEv.transaction[1][2] = Some("swap")
    /\ ~txEv.isSwap

\* C11: once the lookup of a hash has resolved, the URL holds no txHash (and
\* no errorType), whether or not the transaction is a swap and whether or not
\* an errorType came with it; no lookup is started for a hash more than once
\* and none is in flight for a hash whose lookup has resolved.
C11_HashStripped ==
    /\ txEv.kind = "resolved" => (txHash = None /\ errorType = None)
    /\ \A h \in TxHashes :
          /\ txStatus[h].started <= 1
          /\ txStatus[h].result \in {"swap", "notSwap"} =>
                /\ txHash # Some(h)
                /\ \A i \in 1..Len(txChecks) : txChecks[i].txHash # h

\* C11 witness: a hash that came with an errorType was looked up and found
\* not to be a swap, and the component has rendered again since.
C11_Witness ==
    /\ txEv.kind = "render" /\ renders = MaxRenders
    /\ \E h \in TxHashes :
          /\ txStatus[h].result = "notSwap" /\ txStatus[h].errorType # None
          /\ txStatus[h].started = 1

\* C12: the step in which a lookup rejects emits no notification and leaves
\* canSwap, tokenOutAmount, swapsToDo and swapError as they were.
C12_RejectedLookupSilent ==
    [][ (txChecks' # txChecks /\ txEv'.kind = "rejected")
        => /\ toasts' = toasts
           /\ canSwap' = canSwap /\ tokenOutAmount' = tokenOutAmount
           /\ swapsToDo' = swapsToDo /\ swapError' = swapError ]_vars

\* C12 witness: a lookup rejected while a quote was on display; nothing was
\* notified and the quote is still there.
C12_Witness ==
    /\ txEv.kind = "rejected" /\ \A h \in TxHashes : toasts[h] = 0
    /\ canSwap = Some(TRUE) /\ swapsToDo # None /\ swapError = Null

\* C13: a call of makeSwap makes one submission, whose arguments are the
\* swapsToDo, tokenInAmount, slippageTolerance (and tokens) of the current
\* render and the flag, and changes nothing else; a rejected submission sets
\* swapError to the rejection, is not thrown further, is not submitted again,
\* starts no estimation, and leaves canSwap, tokenOutAmount and swapsToDo
\* unchanged.
C13_SubmitOnceAndCatch ==
    [][ /\ submits' > submits =>
             /\ submits' = submits + 1
             /\ ev'.kind = "makeSwap"
             /\ \E b \in BOOLEAN : ev'.args = Some(
                    [slippageTolerance |-> slippageTolerance,
                     swapsToDo |-> swapsToDo, tokenIn |-> tokenIn,
                     amountIn |-> tokenInAmount, tokenOut |-> tokenOut,
                     useNearBalance |-> b])
             /\ UNCHANGED << hookState, inflight, pending >>
        /\ (submits' < submits /\ ev'.kind = "submitRejected") =>
             /\ submits' = submits - 1
             /\ swapError' = SubmitRejected
             /\ ~ev'.unhandled
             /\ canSwap' = canSwap /\ tokenOutAmount' = tokenOutAmount
             /\ swapsToDo' = swapsToDo
             /\ UNCHANGED << inflight, pending >> ]_vars

\* C13 witness: a submission of a tradeable quote was rejected; the error is
\* recorded and the quote is still tradeable.
C13_Witness ==
    /\ ev.kind = "submitRejected" /\ swapError = SubmitRejected
    /\ canSwap = Some(TRUE) /\ swapsToDo # None /\ submits = 0

\* C14: in useStableSwap, when the effects run after tokenInAmount changed to
\* a value that is neither empty nor all zeros, with distinct tokens,
\* estimateStableSwap is called for the new amount, whatever loadingTrigger
\* and the previous amount are.
C14_AmountChangeEstimates ==
    ( /\ stableEv.kind = "effects" /\ stableEv.cause = "amount"
      /\ DistinctTokens(stable.tokenIn, stable.tokenOut)
      /\ ~IsBlankAmount(stable.tokenInAmount) )
    => /\ stableEv.calls # << >>
       /\ stableEv.calls[1].tokenInAmount = stable.tokenInAmount

\* C15: in useStableSwap, when the effects run after the refresh timer set
\* loadingTrigger while tokenInAmount is empty or all zeros,
\* estimateStableSwap is not called.
C15_ZeroAmountTimerSkips ==
    ( /\ stableEv.kind = "effects" /\ stableEv.cause = "timer"
      /\ IsBlankAmount(stable.tokenInAmount) )
    => stableEv.calls = << >>

\* C16: after the session is torn down no interval timer is live and the
\* timer callback does not run, whatever loadingTrigger and loadingPause were
\* and whether or not an estimation was in flight.
C16_TeardownClearsTimer ==
    phase = "unmounted" => (timers = {} /\ ev.kind # "timer")

\* C16 witness: the session was torn down while its timer was live and an
\* estimation was in flight.
C16_Witness ==
    /\ ev.kind = "unmount" /\ ev.args = Some(1) /\ inflight # << >>
    /\ timers = {}

SecondRunSettles ==
    /\ phase = "mounted" /\ Len(inflight) = 1 /\ inflight' = << >>
    /\ latest.outcome = "pending" /\ latest'.outcome = "estimates"
    /\ latest.prev # None
    /\ latest.prev = latest'.estimates

QuoteUnchanged ==
    /\ tokenOutAmount' = tokenOutAmount /\ minAmountOut' = minAmountOut
    /\ avgFee' = avgFee /\ swapsToDo' = swapsToDo /\ pool' = pool

\* C18 as claimed: when a second run of getEstimate with unchanged parameters
\* resolves with the estimates the first run resolved with, the quote it
\* leaves is the quote the first run left and canSwap is true.
C18_Original ==
    [][ SecondRunSettles => (QuoteUnchanged /\ canSwap' = Some(TRUE)) ]_vars

\* The quote on display is wholly the one a visible run resolving with
\* estimates es leaves.
ShowsQuoteOf(es) ==
    /\ swapsToDo = Some(es)
    /\ tokenOutAmount = getExpectedOutputFromActions(es, tokenOut)
    /\ pool = Some(es[1].pool)
    /\ avgFee = (IF Len(es) = 1 THEN es[1].pool.fee
                               ELSE es[1].pool.fee + es[2].pool.fee)

\* C18 amended: the same, when the quote the first run left is wholly that of
\* its result (the first run was not a silent refresh, and no response of an
\* earlier run has overwritten part of it).
C18_Amended ==
    [][ (SecondRunSettles /\ ShowsQuoteOf(latest.prev[1]))
        => (QuoteUnchanged /\ canSwap' = Some(TRUE)) ]_vars

\* C18 witness: a second run has settled with the estimates of the first,
\* which are on display, after getEstimate had reset canSwap.
C18_Witness ==
    /\ Settled /\ ev.outcome = "estimates" /\ inflight = << >>
    /\ latest.outcome = "estimates" /\ latest.prev = latest.estimates
    /\ ShowsQuoteOf(latest.estimates[1]) /\ canSwap = Some(TRUE)
    /\ Len(latest.estimates[1]) = 2

\* C19: with loadingPause false, every estimateSwap call settling and no user
\* edit, each firing of the refresh timer is followed by a state in which
\* loadingTrigger is false again and a new timer is live, whatever the
\* parameters are.
C19_RefreshRearms ==
    (ev.kind = "timer" /\ loadingTrigger)
        ~> (~loadingTrigger /\ pending = {} /\ timers # {})

\* The legs es were estimated for the parameters (tin, tout, amount).
LegsFor(es, tin, tout, amount) ==
    /\ es # << >>
    /\ es[1].inputToken = tin
    /\ es[Len(es)].outputToken = tout
    /\ \A k \in 1..Len(es) : es[k].totalInputAmount = amount

\* C20: once the effects of a render have run, canSwap = true implies that
\* swapsToDo is defined and holds legs estimated for the current tokenIn,
\* tokenOut and tokenInAmount.
C20_TradeableLegsAreCurrent ==
    (Idle /\ canSwap = Some(TRUE))
    => /\ swapsToDo # None
       /\ LegsFor(swapsToDo[1], tokenIn, tokenOut, tokenInAmount)

====
